---- MODULE Spec2Model ----
(***************************************************************************)
(* shoutcast-search: the sorter-pattern compiler (_generate_list_sorters), *)
(* the filter expression compiler (_expression_param), the accumulation,  *)
(* filter and ordering pipeline (search) and the command line driver      *)
(* (main) of src/shoutcast_search/shoutcast_search.py.                     *)
(*                                                                         *)
(* Text is a sequence of one-character strings, so that substring tests,  *)
(* upper-casing and digit parsing are computed and not assumed.           *)
(***************************************************************************)
EXTENDS Integers, Sequences, FiniteSets, TLC

VARIABLES
    pc,           \* position of the running function
    pattern,      \* argument of a direct _generate_list_sorters call
    compiled,     \* what _generate_list_sorters returned (steps, descriptions, closure cell)
    argv,         \* the command line parsed by main
    args,         \* the parameters of the running search call
    opt_dict,     \* search: the query parameters
    results,      \* search: the list being built; the list a sorter is applied to
    known_ids,    \* search: ids found so far
    index,        \* position of the running for-loop
    calls,        \* the provider calls issued so far, oldest first
    replies,      \* the provider's answers to the station queries, oldest first
    accumulated,  \* search: results as they were at the end of the accumulation
    returned,     \* what search returned
    exit_code,    \* main: the process exit code
    stderr,       \* the error message written, if any
    stdout,       \* main: the list printed
    expression,   \* argument of a direct _expression_param call
    predicate,    \* what _expression_param returned
    verdict       \* what the returned predicate said about a value

vars == <<pc, pattern, compiled, argv, args, opt_dict, results, known_ids,
          index, calls, replies, accumulated, returned, exit_code, stderr, stdout,
          expression, predicate, verdict>>

----------------------------------------------------------------------------
(* Bounds *)

MaxPatLen == 4      \* longest sorter pattern compiled
MaxKeywords == 2    \* longest combined keyword list
MaxLimit == 2       \* largest limit / -n value
MaxExprLen == 3     \* longest filter expression compiled

----------------------------------------------------------------------------
(* Text helpers *)

Min(a, b) == IF a < b THEN a ELSE b

Take(list, n) == SubSeq(list, 1, Min(n, Len(list)))

Digits == {"0", "1", "2", "3", "4", "5", "6", "7", "8", "9"}

DigitValue(c) ==
    CASE c = "0" -> 0 [] c = "1" -> 1 [] c = "2" -> 2 [] c = "3" -> 3
      [] c = "4" -> 4 [] c = "5" -> 5 [] c = "6" -> 6 [] c = "7" -> 7
      [] c = "8" -> 8 [] c = "9" -> 9

\* int(text) for a text of decimal digits; white space around them is ignored
RECURSIVE int(_)
int(text) ==
    IF Len(text) = 0 THEN 0
    ELSE IF text[Len(text)] = "\n" THEN int(SubSeq(text, 1, Len(text) - 1))
    ELSE 10 * int(SubSeq(text, 1, Len(text) - 1)) + DigitValue(text[Len(text)])

\* str.upper() on the letters used here
UpperChar(c) ==
    CASE c = "a" -> "A" [] c = "b" -> "B" [] c = "c" -> "C" [] OTHER -> c

upper(text) == [i \in 1..Len(text) |-> UpperChar(text[i])]

\* Python's  needle in hay  for strings
In(needle, hay) ==
    \E i \in 0..Len(hay) :
        /\ i + Len(needle) <= Len(hay)
        /\ SubSeq(hay, i + 1, i + Len(needle)) = needle

Reversed(list) == [i \in 1..Len(list) |-> list[Len(list) + 1 - i]]

\* all sequences over S of length at most n
SeqsUpTo(S, n) == UNION {[1..k -> S] : k \in 0..n}

\* list without its i-th element
Without(list, i) == SubSeq(list, 1, i - 1) \o SubSeq(list, i + 1, Len(list))

\* the permutations of a list, as lists
RECURSIVE Permutations_(_)
Permutations_(list) ==
    IF Len(list) = 0 THEN {<<>>}
    ELSE UNION {{<<list[i]>> \o rest : rest \in Permutations_(Without(list, i))} :
                i \in 1..Len(list)}

----------------------------------------------------------------------------
(* _generate_list_sorters *)

Step(kind, field, descending) ==
    [kind |-> kind, field |-> field, descending |-> descending]

\* sorted(list, key=lambda a: int(a[field]), reverse=descending): a stable sort
RECURSIVE SortedInsert(_, _, _, _)
SortedInsert(out, r, field, descending) ==
    \* r goes behind every element that does not sort strictly after it
    LET before(x) == IF descending THEN int(x[field]) >= int(r[field])
                                   ELSE int(x[field]) <= int(r[field])
    IN  IF Len(out) = 0 THEN <<r>>
        ELSE IF before(out[Len(out)]) THEN Append(out, r)
        ELSE Append(SortedInsert(SubSeq(out, 1, Len(out) - 1), r, field, descending),
                    out[Len(out)])

RECURSIVE SortedFrom(_, _, _, _)
SortedFrom(out, list, field, descending) ==
    IF Len(list) = 0 THEN out
    ELSE SortedFrom(SortedInsert(out, Head(list), field, descending),
                    Tail(list), field, descending)

_create_sorter_Unstable(field, descending, list) ==
    Reversed(SortedFrom(<<>>, list, field, ~descending))

_create_sorter(field, descending, list) == SortedFrom(<<>>, list, field, descending)

_filter_description(fieldname, descending) ==
    fieldname \o " " \o (IF ~descending THEN "asc" ELSE "desc")

_random_WithReplacement(list) == [1..Len(list) -> {list[i] : i \in 1..Len(list)}]

\* random.shuffle(list): any permutation
_random(list) == Permutations_(list)

ReadNumber_OneDigit(pat, index_) ==
    IF index_ + 1 > Len(pat) \/ pat[index_ + 1] \notin Digits THEN <<>>
    ELSE <<pat[index_ + 1]>>

\* the digits consumed after an 'n' at position index (lines 292-296)
RECURSIVE ReadNumber(_, _)
ReadNumber(pat, index_) ==
    IF index_ + 1 > Len(pat) \/ pat[index_ + 1] \notin Digits THEN <<>>
    ELSE <<pat[index_ + 1]>> \o ReadNumber(pat, index_ + 1)

NoError == ""

\* the while loop of lines 274-308; st is the function's local state
RECURSIVE Scan(_, _, _)
Scan(pat, index_, st) ==
    IF ~(index_ <= Len(pat)) THEN st
    ELSE
      LET char == pat[index_] IN
      IF char = "^" THEN
          Scan(pat, index_ + 1, [st EXCEPT !.sort_descending = FALSE])
      ELSE IF char = "b" THEN
          Scan(pat, index_ + 1,
               [st EXCEPT !.sorters = Append(@, Step("sort", "br", st.sort_descending)),
                          !.sorters_description =
                              Append(@, _filter_description("bitrate", st.sort_descending))])
      ELSE IF char = "l" THEN
          Scan(pat, index_ + 1,
               [st EXCEPT !.sorters = Append(@, Step("sort", "lc", st.sort_descending)),
                          !.sorters_description =
                              Append(@, _filter_description("listeners", st.sort_descending))])
      ELSE IF char = "r" THEN
          Scan(pat, index_ + 1,
               [st EXCEPT !.sorters = Append(@, Step("random", "", TRUE)),
                          !.sorters_description = Append(@, "random order")])
      ELSE IF char = "n" THEN
          LET number == ReadNumber(pat, index_) IN
          IF Len(number) = 0 THEN
              [st EXCEPT !.error = "missing number for sorter n", !.char = char]
          ELSE
              \* the truncating lambda reads the variable  value  when it is called
              Scan(pat, index_ + Len(number) + 1,
                   [st EXCEPT !.value = int(number),
                              !.sorters = Append(@, Step("truncate", "", TRUE)),
                              !.sorters_description =
                                  Append(@, "top " \o ToString(int(number)))])
      ELSE [st EXCEPT !.error = "invalid sorter", !.char = char]

DefaultPattern_b == <<"b">>

\* the default of the parameter  pattern
DefaultPattern == <<"l">>

_generate_list_sorters(pat) ==
    Scan(pat, 1, [sorters |-> <<>>, sorters_description |-> <<>>,
                  sort_descending |-> TRUE, value |-> 0,
                  error |-> NoError, char |-> ""])

\* calling one compiled sorter m on a list; cell is the closure variable  value
CallSorter(m, list, cell) ==
    IF m.kind = "sort" THEN {_create_sorter(m.field, m.descending, list)}
    ELSE IF m.kind = "random" THEN _random(list)
    ELSE {SubSeq(list, 1, Min(cell, Len(list)))}

----------------------------------------------------------------------------
(* Station records, as the provider returns them (the attributes of a     *)
(* <station> element: every value is text)                                *)

Station(id, name, genre, ct, br, lc) ==
    [id |-> id, name |-> name, genre |-> genre, ct |-> ct, br |-> br, lc |-> lc,
     mt |-> "audio/mpeg"]

st1  == Station("1", <<"A", "b">>, <<"a">>, <<"c">>, <<"6", "4">>, <<"7">>)
\* station 1 again, as a later query reports it: other track, other listener count
st1x == Station("1", <<"A", "b">>, <<"a">>, <<"b">>, <<"6", "4">>, <<"9">>)
st2  == Station("2", <<"B">>, <<"c", " ", "a">>, <<>>, <<"1", "2", "8">>, <<"0", "7">>)
st3  == Station("3", <<"a", "a">>, <<"B">>, <<"A", "b">>, <<"3", "2">>, <<"1", "2">>)
st4  == Station("4", <<"c">>, <<"c">>, <<"c", "a">>, <<"1", "2", "8">>, <<"7">>)

\* the answers the provider may give to one station query
Responses ==
    { <<>>, <<st1, st2>>, <<st2, st1x, st3>>, <<st3, st3>>, <<st4, st1x>>, <<st3, st4, st2>> }

\* the lists the compiled sorters are tried on
TestLists == { <<st1, st2, st3>>, <<st4, st3, st2, st1x>> }

PatternChars == {"^", "b", "l", "r", "n", "0", "1", "2", "x"}

Patterns == SeqsUpTo(PatternChars, MaxPatLen)

----------------------------------------------------------------------------
(* Values of the variables a run does not use or has not set yet *)

NoPattern == [given |-> FALSE, text |-> <<>>]

NoCompiled == [sorters |-> <<>>, sorters_description |-> <<>>,
               sort_descending |-> TRUE, value |-> 0, error |-> NoError, char |-> ""]

NoArgv == [used |-> FALSE]

NoArgs == [used |-> FALSE]

NoExpression == [given |-> FALSE, text |-> <<>>]

NoPredicate == [error |-> FALSE, op |-> "any", value |-> <<>>]

NoVerdict == [called |-> FALSE, x |-> <<>>, accepted |-> FALSE]

----------------------------------------------------------------------------
(* A direct call of _generate_list_sorters, and the loop of               *)
(* test_generate_list_sorters_combination that runs the sorters it returns *)

PatternText == IF pattern.given THEN pattern.text ELSE DefaultPattern

InitSorters ==
    /\ pc = "gls_call"
    /\ pattern \in {NoPattern} \cup {[given |-> TRUE, text |-> t] : t \in Patterns}
    /\ compiled = NoCompiled
    /\ argv = NoArgv
    /\ args = NoArgs
    /\ opt_dict = <<>>
    /\ results \in TestLists
    /\ known_ids = <<>>
    /\ index = 0
    /\ calls = <<>>
    /\ replies = <<>>
    /\ accumulated = <<>>
    /\ returned = <<>>
    /\ exit_code = -1
    /\ stderr = ""
    /\ stdout = <<>>
    /\ expression = NoExpression
    /\ predicate = NoPredicate
    /\ verdict = NoVerdict

GenerateListSorters ==
    /\ pc = "gls_call"
    /\ compiled' = _generate_list_sorters(PatternText)
    /\ pc' = IF compiled'.error = NoError THEN "gls_done" ELSE "gls_error"
    /\ index' = 1
    /\ UNCHANGED <<pattern, argv, args, opt_dict, results, known_ids, calls,
                   replies, accumulated, returned, exit_code, stderr, stdout,
                   expression, predicate, verdict>>

\* argparser.error(...): the message is printed and the process exits with 2
GenerateListSortersExit ==
    /\ pc = "gls_error"
    /\ pc' = "exit"
    /\ exit_code' = 2
    /\ stderr' = compiled.error
    /\ UNCHANGED <<pattern, compiled, argv, args, opt_dict, results, known_ids,
                   index, calls, replies, accumulated, returned, stdout,
                   expression, predicate, verdict>>

RunSorter ==
    /\ pc = "gls_done"
    /\ index <= Len(compiled.sorters)
    /\ results' \in CallSorter(compiled.sorters[index], results, compiled.value)
    /\ index' = index + 1
    /\ UNCHANGED <<pc, pattern, compiled, argv, args, opt_dict, known_ids, calls,
                   replies, accumulated, returned, exit_code, stderr, stdout,
                   expression, predicate, verdict>>

NextSorters == GenerateListSorters \/ GenerateListSortersExit \/ RunSorter

SpecSorters == InitSorters /\ [][NextSorters]_vars

----------------------------------------------------------------------------
(* What a pattern says, read off the pattern text *)

StepLetters == {"b", "l", "r", "n"}

\* the position in pat of the letter behind the i-th step
LetterPos(pat, i) ==
    CHOOSE p \in 1..Len(pat) :
        /\ pat[p] \in StepLetters
        /\ Cardinality({q \in 1..p : pat[q] \in StepLetters}) = i

\* a '^' stands between the letter of step i - 1 (or the pattern start) and the letter of step i
CaretBefore(pat, i) ==
    LET from == IF i = 1 THEN 0 ELSE LetterPos(pat, i - 1)
    IN  \E j \in (from + 1)..(LetterPos(pat, i) - 1) : pat[j] = "^"

\* the number written behind the 'n' of step i: all contiguous digits
WrittenNumber(pat, i) ==
    LET p == LetterPos(pat, i)
        last == CHOOSE q \in p..Len(pat) :
                    /\ \A j \in (p + 1)..q : pat[j] \in Digits
                    /\ (q = Len(pat) \/ pat[q + 1] \notin Digits)
    IN  int(SubSeq(pat, p + 1, last))

FieldName(field) == IF field = "br" THEN "bitrate" ELSE "listeners"

\* C1: in every compiled pattern each b/l step sorts ascending exactly when a '^'
\* stands between the previously emitted step (or the pattern start) and its
\* letter, and its description says asc or desc accordingly.
C1_CaretAffectsOnlyNextStep ==
    pc = "gls_done" =>
        \A i \in 1..Len(compiled.sorters) :
            compiled.sorters[i].kind = "sort" =>
                /\ compiled.sorters[i].descending = ~CaretBefore(PatternText, i)
                /\ compiled.sorters_description[i] =
                       FieldName(compiled.sorters[i].field) \o " " \o
                       (IF CaretBefore(PatternText, i) THEN "asc" ELSE "desc")

\* C2: every truncate step returns the first N elements of the list it is given,
\* N being the number written behind the step's own 'n', and is described as 'top N'.
C2_TruncateKeepsOwnNumber ==
    [][(/\ pc = "gls_done"
        /\ index <= Len(compiled.sorters)
        /\ compiled.sorters[index].kind = "truncate")
       => /\ results' = Take(results, WrittenNumber(PatternText, index))
          /\ compiled.sorters_description[index] =
                 "top " \o ToString(WrittenNumber(PatternText, index))]_vars

ListenersDesc ==
    /\ compiled.sorters = <<Step("sort", "lc", TRUE)>>
    /\ compiled.sorters_description = <<"listeners desc">>

\* C3 as claimed: the empty pattern, 'l' and no pattern at all compile to the one
\* descending listener-count step described as 'listeners desc'.
C3_EmptyPatternIsL ==
    (~pattern.given \/ pattern.text \in {<<>>, <<"l">>}) =>
        (pc # "gls_call" => pc = "gls_done" /\ ListenersDesc)

\* C3 amended: 'l' and no pattern at all compile to the one descending
\* listener-count step described as 'listeners desc'; the empty pattern compiles
\* to no step and no description.
C3_DefaultIsL_EmptyIsNoStep ==
    pc # "gls_call" =>
        /\ (~pattern.given \/ pattern.text = <<"l">>) => pc = "gls_done" /\ ListenersDesc
        /\ (pattern.given /\ pattern.text = <<>>) =>
               /\ pc = "gls_done"
               /\ compiled.sorters = <<>>
               /\ compiled.sorters_description = <<>>

C3_Witness ==
    /\ pc = "gls_done"
    /\ ~pattern.given
    /\ ListenersDesc

----------------------------------------------------------------------------
(* _expression_param *)

\* text.strip(ch): ch removed from both ends
RECURSIVE strip(_, _)
strip(text, ch) ==
    IF Len(text) > 0 /\ text[1] = ch THEN strip(Tail(text), ch)
    ELSE IF Len(text) > 0 /\ text[Len(text)] = ch
         THEN strip(SubSeq(text, 1, Len(text) - 1), ch)
    ELSE text

\* re.compile('^[=><]?\d+$').match(value); '$' also matches in front of a
\* newline that ends the text
ExpressionMatches(value) ==
    LET body == IF Len(value) > 0 /\ value[Len(value)] = "\n"
                THEN SubSeq(value, 1, Len(value) - 1) ELSE value
        number == IF Len(body) > 0 /\ body[1] \in {"=", ">", "<"}
                  THEN Tail(body) ELSE body
    IN  /\ Len(number) >= 1
        /\ \A i \in 1..Len(number) : number[i] \in Digits

\* the predicate returned: the lambda's comparison and the text it closes over
_expression_param(value) ==
    IF Len(value) = 0 THEN [error |-> FALSE, op |-> "any", value |-> value]
    ELSE IF ~ExpressionMatches(value) THEN [error |-> TRUE, op |-> "any", value |-> value]
    ELSE IF value[1] = ">" THEN [error |-> FALSE, op |-> ">", value |-> value]
    ELSE IF value[1] = "<" THEN [error |-> FALSE, op |-> "<", value |-> value]
    ELSE [error |-> FALSE, op |-> "==", value |-> value]

\* calling the returned predicate on x
CallExpression(fn, x) ==
    IF fn.op = "any" THEN TRUE
    ELSE IF fn.op = ">" THEN int(x) > int(strip(fn.value, ">"))
    ELSE IF fn.op = "<" THEN int(x) < int(strip(fn.value, "<"))
    ELSE int(x) = int(strip(fn.value, "="))

----------------------------------------------------------------------------
(* search *)

\* line 124
keywords == args.search \o args.station \o args.genre \o args.song

\* the provider call  _retrieve_search_results(opt_dict)
SearchCall(params) == [fn |-> "_retrieve_search_results", params |-> params]

NewRows_KeepAll(reply, known) == reply

\* lines 143-144: the rows of one answer whose id is not known yet
NewRows(reply, known) ==
    SelectSeq(reply, LAMBDA row : \A i \in 1..Len(known) : known[i] # row.id)

\* line 145
IdsOf(list) == [i \in 1..Len(list) |-> list[i].id]

\* line 148
FilterBitrate(list) == SelectSeq(list, LAMBDA r : CallExpression(args.bitrate_fn, r.br))

\* line 150
FilterListeners(list) == SelectSeq(list, LAMBDA r : CallExpression(args.listeners_fn, r.lc))

FilterPhrase_CaseSensitive(list, phrase, field) ==
    SelectSeq(list, LAMBDA r : In(phrase, r[field]))

\* one pass of the loops of lines 154-159: phrase must occur in the field
FilterPhrase(list, phrase, field) ==
    SelectSeq(list, LAMBDA r : In(upper(phrase), upper(r[field])))

RECURSIVE FilterPhrases(_, _, _)
FilterPhrases(list, phrases, field) ==
    IF Len(phrases) = 0 THEN list
    ELSE FilterPhrases(FilterPhrase(list, Head(phrases), field), Tail(phrases), field)

\* '{0} {1} {2}'.format(r['name'], r['genre'], r['ct'])
JoinedText(r) == r.name \o <<" ">> \o r.genre \o <<" ">> \o r.ct

\* lines 160-163
RECURSIVE FilterKeywords(_, _)
FilterKeywords(list, ks) ==
    IF Len(ks) = 0 THEN list
    ELSE FilterKeywords(SelectSeq(list, LAMBDA r : In(upper(Head(ks)), upper(JoinedText(r)))),
                        Tail(ks))

\* lines 147-163
Filtered(list) ==
    FilterKeywords(
        FilterPhrases(
            FilterPhrases(
                FilterPhrases(FilterListeners(FilterBitrate(list)), args.station, "name"),
                args.genre, "genre"),
            args.song, "ct"),
        keywords)

SortByListeners_Reversed(list) == Reversed(_create_sorter("lc", FALSE, list))

\* line 169
SortByListeners(list) == _create_sorter("lc", TRUE, list)

\* lines 174-175
Limited(list, limit) == IF limit > 0 THEN SubSeq(list, 1, Min(limit, Len(list))) ELSE list

SearchBegin_NoMime ==
    /\ pc = "search"
    /\ opt_dict' = <<>>
    /\ results' = <<>>
    /\ known_ids' = <<>>
    /\ index' = 1
    /\ pc' = IF Len(keywords) = 0 THEN "top500" ELSE "keywords"
    /\ UNCHANGED <<pattern, compiled, argv, args, calls, replies, accumulated,
                   returned, exit_code, stderr, stdout,
                   expression, predicate, verdict>>

\* lines 123-127 and 139-140
SearchBegin ==
    /\ pc = "search"
    /\ opt_dict' = IF args.mime_type # "" THEN ("mt" :> args.mime_type) ELSE <<>>
    /\ results' = <<>>
    /\ known_ids' = <<>>
    /\ index' = 1
    /\ pc' = IF Len(keywords) = 0 THEN "top500" ELSE "keywords"
    /\ UNCHANGED <<pattern, compiled, argv, args, calls, replies, accumulated,
                   returned, exit_code, stderr, stdout,
                   expression, predicate, verdict>>

\* lines 129-133
QueryTop500 ==
    /\ pc = "top500"
    /\ opt_dict' = ("genre" :> "Top500") @@ opt_dict
    /\ calls' = Append(calls, SearchCall(opt_dict'))
    /\ \E reply \in Responses :
           /\ replies' = Append(replies, reply)
           /\ results' = reply
           /\ accumulated' = reply
    /\ pc' = "filter"
    /\ UNCHANGED <<pattern, compiled, argv, args, known_ids, index, returned,
                   exit_code, stderr, stdout,
                   expression, predicate, verdict>>

\* lines 141-145, one pass of the loop; the loop ends behind the last keyword
QueryKeyword ==
    /\ pc = "keywords"
    /\ index <= Len(keywords)
    /\ opt_dict' = ("search" :> keywords[index]) @@ opt_dict
    /\ calls' = Append(calls, SearchCall(opt_dict'))
    /\ \E reply \in Responses :
           /\ replies' = Append(replies, reply)
           /\ results' = results \o NewRows(reply, known_ids)
    /\ known_ids' = IdsOf(results')
    /\ index' = index + 1
    /\ pc' = IF index = Len(keywords) THEN "filter" ELSE "keywords"
    /\ accumulated' = IF index = Len(keywords) THEN results' ELSE accumulated
    /\ UNCHANGED <<pattern, compiled, argv, args, returned, exit_code, stderr, stdout,
                   expression, predicate, verdict>>

QueryFails_KeepsPartial ==
    /\ \/ /\ pc = "top500"
          /\ opt_dict' = ("genre" :> "Top500") @@ opt_dict
       \/ /\ pc = "keywords"
          /\ index <= Len(keywords)
          /\ opt_dict' = ("search" :> keywords[index]) @@ opt_dict
    /\ calls' = Append(calls, SearchCall(opt_dict'))
    /\ accumulated' = results
    /\ pc' = "filter"
    /\ UNCHANGED <<pattern, compiled, argv, args, results, known_ids, index, replies,
                   returned, exit_code, stderr, stdout,
                   expression, predicate, verdict>>

\* lines 133 and 143 when urlopen raises URLError: search is left at once
QueryFails ==
    /\ \/ /\ pc = "top500"
          /\ opt_dict' = ("genre" :> "Top500") @@ opt_dict
       \/ /\ pc = "keywords"
          /\ index <= Len(keywords)
          /\ opt_dict' = ("search" :> keywords[index]) @@ opt_dict
    /\ calls' = Append(calls, SearchCall(opt_dict'))
    /\ pc' = "raised"
    /\ UNCHANGED <<pattern, compiled, argv, args, results, known_ids, index, replies,
                   accumulated, returned, exit_code, stderr, stdout,
                   expression, predicate, verdict>>

\* lines 147-163
Filter ==
    /\ pc = "filter"
    /\ results' = Filtered(results)
    /\ pc' = "order"
    /\ UNCHANGED <<pattern, compiled, argv, args, opt_dict, known_ids, index, calls,
                   replies, accumulated, returned, exit_code, stderr, stdout,
                   expression, predicate, verdict>>

\* lines 165-166
Shuffle ==
    /\ pc = "order"
    /\ args.randomize
    /\ results' \in _random(results)
    /\ index' = 1
    /\ pc' = "sorters"
    /\ UNCHANGED <<pattern, compiled, argv, args, opt_dict, known_ids, calls,
                   replies, accumulated, returned, exit_code, stderr, stdout,
                   expression, predicate, verdict>>

\* lines 167-169
SortListeners ==
    /\ pc = "order"
    /\ ~args.randomize
    /\ results' = SortByListeners(results)
    /\ index' = 1
    /\ pc' = "sorters"
    /\ UNCHANGED <<pattern, compiled, argv, args, opt_dict, known_ids, calls,
                   replies, accumulated, returned, exit_code, stderr, stdout,
                   expression, predicate, verdict>>

\* lines 171-172, one pass of the loop
ApplySorter ==
    /\ pc = "sorters"
    /\ index <= Len(args.sorters)
    /\ results' \in CallSorter(args.sorters[index], results, args.cell)
    /\ index' = index + 1
    /\ UNCHANGED <<pc, pattern, compiled, argv, args, opt_dict, known_ids, calls,
                   replies, accumulated, returned, exit_code, stderr, stdout,
                   expression, predicate, verdict>>

Return_NoLimitAfterTruncate ==
    /\ pc = "sorters"
    /\ ~(index <= Len(args.sorters))
    /\ returned' = IF \E i \in 1..Len(args.sorters) : args.sorters[i].kind = "truncate"
                   THEN results ELSE Limited(results, args.limit)
    /\ pc' = "returned"
    /\ UNCHANGED <<pattern, compiled, argv, args, opt_dict, results, known_ids, index,
                   calls, replies, accumulated, exit_code, stderr, stdout,
                   expression, predicate, verdict>>

\* lines 174-177
Return ==
    /\ pc = "sorters"
    /\ ~(index <= Len(args.sorters))
    /\ returned' = Limited(results, args.limit)
    /\ pc' = "returned"
    /\ UNCHANGED <<pattern, compiled, argv, args, opt_dict, results, known_ids, index,
                   calls, replies, accumulated, exit_code, stderr, stdout,
                   expression, predicate, verdict>>

----------------------------------------------------------------------------
(* A call of search: the parameters it is checked on *)

Phrases == { <<"a">>, <<"B">> }

\* the four criteria lists, at most n phrases in all
Criteria(n) ==
    {c \in [search : SeqsUpTo(Phrases, n), station : SeqsUpTo(Phrases, n),
            genre : SeqsUpTo(Phrases, n), song : SeqsUpTo(Phrases, n)] :
        Len(c.search) + Len(c.station) + Len(c.genre) + Len(c.song) <= n}

SearchArgs(c, bitrate, listeners, mime_type, limit, randomize, sort_rules) ==
    [used |-> TRUE,
     search |-> c.search, station |-> c.station, genre |-> c.genre, song |-> c.song,
     bitrate_fn |-> _expression_param(bitrate),
     listeners_fn |-> _expression_param(listeners),
     mime_type |-> mime_type, limit |-> limit, randomize |-> randomize,
     sorters |-> _generate_list_sorters(sort_rules).sorters,
     cell |-> _generate_list_sorters(sort_rules).value]

\* str(n) for a one-digit n
DigitOf(n) == CHOOSE c \in Digits : DigitValue(c) = n

\* the pattern 'ln<N>'
LimitPattern(n) == <<"l", "n", DigitOf(n)>>

\* the sort rules handed to search
SearchPatterns ==
    { <<>>, <<"b">>, <<"^", "l">>, <<"n", "1">>, <<"l", "n", "2", "r">> }
        \cup {LimitPattern(n) : n \in 1..MaxLimit}

\* every combination of criteria lists and mime type, with the defaults of the
\* other parameters
AccumulationArgs ==
    {SearchArgs(c, <<>>, <<>>, mt, 0, FALSE, <<>>) :
        c \in Criteria(MaxKeywords), mt \in {"", "audio/mpeg"}}

\* every combination of filters, limit, order and sort rules, on at most one phrase
PipelineArgs ==
    {SearchArgs(c, b, l, "", limit, r, p) :
        c \in Criteria(1),
        b \in {<<>>, <<">", "6", "4">>},
        l \in {<<>>, <<"=", "7">>},
        limit \in 0..MaxLimit,
        r \in BOOLEAN,
        p \in SearchPatterns}

Init ==
    /\ pc = "search"
    /\ pattern = NoPattern
    /\ compiled = NoCompiled
    /\ argv = NoArgv
    /\ args \in AccumulationArgs \cup PipelineArgs
    /\ opt_dict = <<>>
    /\ results = <<>>
    /\ known_ids = <<>>
    /\ index = 0
    /\ calls = <<>>
    /\ replies = <<>>
    /\ accumulated = <<>>
    /\ returned = <<>>
    /\ exit_code = -1
    /\ stderr = ""
    /\ stdout = <<>>
    /\ expression = NoExpression
    /\ predicate = NoPredicate
    /\ verdict = NoVerdict

Next ==
    \/ SearchBegin \/ QueryTop500 \/ QueryKeyword \/ QueryFails
    \/ Filter \/ Shuffle \/ SortListeners \/ ApplySorter \/ Return

Spec == Init /\ [][Next]_vars

----------------------------------------------------------------------------
(* The accumulation *)

NoDuplicateIds(list) ==
    \A i, j \in 1..Len(list) : list[i].id = list[j].id => i = j

\* C4: with a non-empty keyword list the accumulated sequence never holds two
\* records with the same id, after each query and at the end of the accumulation,
\* whatever the provider answers.
C4_AccumulatedIdsUnique ==
    (args.used /\ Len(keywords) > 0) =>
        /\ NoDuplicateIds(results)
        /\ NoDuplicateIds(accumulated)

\* the query parameters the criteria ask for
MimeParams == IF args.mime_type # "" THEN [x \in {"mt"} |-> args.mime_type] ELSE <<>>

Top500Params ==
    [x \in DOMAIN MimeParams \cup {"genre"} |-> IF x = "genre" THEN "Top500" ELSE MimeParams[x]]

KeywordParams(k) ==
    [x \in DOMAIN MimeParams \cup {"search"} |-> IF x = "search" THEN k ELSE MimeParams[x]]

ExpectedCalls ==
    IF Len(keywords) = 0 THEN <<SearchCall(Top500Params)>>
    ELSE [i \in 1..Len(keywords) |-> SearchCall(KeywordParams(keywords[i]))]

\* C5: the queries issued are fixed by the criteria: one Top500 query (plus mt)
\* for an empty combined keyword list, else one search=<keyword> query (plus mt)
\* per entry of the list, in list order, repeated entries included.
C5_QueriesFixedByCriteria ==
    args.used =>
        /\ Len(calls) <= Len(ExpectedCalls)
        /\ calls = SubSeq(ExpectedCalls, 1, Len(calls))
        /\ pc \in {"filter", "order", "sorters", "returned"} => calls = ExpectedCalls

C5_Witness ==
    /\ pc = "returned"
    /\ args.mime_type = "audio/mpeg"
    /\ Len(keywords) = 2
    /\ keywords[1] = keywords[2]
    /\ Len(calls) = 2

\* the rows of answer i whose id no earlier answer held
FirstSeen(i) ==
    SelectSeq(replies[i],
              LAMBDA r : \A j \in 1..(i - 1) : \A m \in 1..Len(replies[j]) :
                             replies[j][m].id # r.id)

RECURSIVE FirstSeenUpTo(_)
FirstSeenUpTo(i) == IF i = 0 THEN <<>> ELSE FirstSeenUpTo(i - 1) \o FirstSeen(i)

\* C6: the accumulated sequence holds, query after query in keyword order, the
\* records of each answer whose id no earlier answer held: the record of the
\* earliest query wins, later records with that id are dropped, and the order is
\* the order of first appearance.
C6_FirstSeenWins ==
    (args.used /\ Len(keywords) > 0) =>
        /\ pc = "keywords" => results = FirstSeenUpTo(Len(replies))
        /\ pc \in {"filter", "order", "sorters", "returned"} =>
               /\ Len(replies) = Len(keywords)
               /\ accumulated = FirstSeenUpTo(Len(replies))

C6_Witness ==
    /\ pc = "filter"
    /\ replies = << <<st1, st2>>, <<st2, st1x, st3>> >>
    /\ accumulated = <<st1, st2, st3>>

----------------------------------------------------------------------------
(* Filtering and ordering *)

SameLetter(c, d) == UpperChar(c) = UpperChar(d)

\* phrase is a case-insensitive substring of text
OccursIn(phrase, text) ==
    \E off \in 0..Len(text) :
        /\ off + Len(phrase) <= Len(text)
        /\ \A i \in 1..Len(phrase) : SameLetter(phrase[i], text[off + i])

\* record r meets every criterion of the call
MeetsAll(r) ==
    /\ CallExpression(args.bitrate_fn, r.br)
    /\ CallExpression(args.listeners_fn, r.lc)
    /\ \A i \in 1..Len(args.station) : OccursIn(args.station[i], r.name)
    /\ \A i \in 1..Len(args.genre) : OccursIn(args.genre[i], r.genre)
    /\ \A i \in 1..Len(args.song) : OccursIn(args.song[i], r.ct)
    /\ \A i \in 1..Len(keywords) :
           OccursIn(keywords[i], r.name \o <<" ">> \o r.genre \o <<" ">> \o r.ct)

Elements(list) == {list[i] : i \in 1..Len(list)}

NoTruncateStep == \A i \in 1..Len(args.sorters) : args.sorters[i].kind # "truncate"

\* C7: with limit 0 and no truncating sort step search returns exactly the
\* accumulated records that meet all criteria at once.
C7_FilterIsConjunction ==
    (pc = "returned" /\ args.limit = 0 /\ NoTruncateStep) =>
        Elements(returned) = {r \in Elements(accumulated) : MeetsAll(r)}

C7_Witness ==
    /\ pc = "returned"
    /\ args.limit = 0
    /\ Len(args.station) = 1
    /\ Len(args.genre) = 1
    /\ returned # <<>>
    /\ \E r \in Elements(accumulated) :
           /\ OccursIn(args.station[1], r.name)
           /\ ~OccursIn(args.genre[1], r.genre)
    /\ \E r \in Elements(accumulated) :
           /\ ~OccursIn(args.station[1], r.name)
           /\ OccursIn(args.genre[1], r.genre)

\* the accumulated records that meet all criteria, in accumulated order
Kept == SelectSeq(accumulated, MeetsAll)

\* the place of Kept[i] when Kept is ordered by listener count, largest first,
\* equal counts in the order of Kept
Rank(i) ==
    1 + Cardinality({j \in 1..Len(Kept) :
                        \/ int(Kept[j].lc) > int(Kept[i].lc)
                        \/ (int(Kept[j].lc) = int(Kept[i].lc) /\ j < i)})

\* C8: without randomize and sort rules search returns the filtered records by
\* listener count, largest first, records with equal counts in the order they
\* had in the accumulated sequence (cut to the limit, if one is given).
C8_ListenersDescendingStable ==
    (pc = "returned" /\ ~args.randomize /\ args.sorters = <<>>) =>
        /\ Len(returned) = IF args.limit > 0 THEN Min(args.limit, Len(Kept)) ELSE Len(Kept)
        /\ \A i \in 1..Len(Kept) : Rank(i) <= Len(returned) => returned[Rank(i)] = Kept[i]

C8_Witness ==
    /\ pc = "returned"
    /\ ~args.randomize
    /\ args.sorters = <<>>
    /\ accumulated = <<st1, st2, st3, st4>>
    /\ returned = <<st3, st1, st2, st4>>

\* C9: the final limit is applied to the sequence the last sort-rule step
\* produced: for limit > 0 the result is its first min(limit, k) elements, for
\* limit = 0 all of it, also when a sort rule has truncated already.
C9_LimitAfterSorters ==
    pc = "returned" =>
        /\ index = Len(args.sorters) + 1
        /\ args.limit > 0 =>
               /\ Len(returned) = Min(args.limit, Len(results))
               /\ \A i \in 1..Len(returned) : returned[i] = results[i]
        /\ args.limit = 0 => returned = results

C9_Witness ==
    /\ pc = "returned"
    /\ args.limit = 1
    /\ \E i \in 1..Len(args.sorters) : args.sorters[i].kind = "truncate"
    /\ Len(results) = 2
    /\ Len(returned) = 1

----------------------------------------------------------------------------
(* main.  The verbose summary and the output format only change what is   *)
(* printed and are left out; stdout is the list of stations (or genres)   *)
(* printed.                                                               *)

\* ''.join(chars): a text as one string
RECURSIVE Joined(_)
Joined(text) == IF Len(text) = 0 THEN "" ELSE Head(text) \o Joined(Tail(text))

\* lines 414-415
CodecValid(codec) ==
    strip(codec, "\"") \in { <<"m", "p", "e", "g">>, <<"a", "a", "c", "p">> }

\* lines 412-416
MimeType(codec) == IF Len(codec) = 0 THEN "" ELSE "audio/" \o Joined(strip(codec, "\""))

\* the provider call  get_genres()
GenresCall == [fn |-> "get_genres", params |-> <<>>]

\* what the genre listing may return
GenreLists == { <<>>, <<"Acid Jazz", "Dub">> }

\* lines 386-392; a URLError is caught at line 455
MainListGenres ==
    /\ pc = "main"
    /\ argv.do_list_genres
    /\ calls' = Append(calls, GenresCall)
    /\ \/ \E genres \in GenreLists :
              /\ stdout' = genres
              /\ exit_code' = IF Len(genres) > 0 THEN 0 ELSE 4
              /\ stderr' = stderr
       \/ /\ exit_code' = 1
          /\ stderr' = "network error"
          /\ stdout' = stdout
    /\ pc' = "exit"
    /\ UNCHANGED <<pattern, compiled, argv, args, opt_dict, results, known_ids, index,
                   replies, accumulated, returned,
                   expression, predicate, verdict>>

MainSorters_NoExit ==
    /\ pc = "sort"
    /\ compiled' = _generate_list_sorters(argv.sort_rules)
    /\ pc' = "call"
    /\ UNCHANGED <<pattern, argv, args, opt_dict, results, known_ids, index, calls,
                   replies, accumulated, returned, exit_code, stderr, stdout,
                   expression, predicate, verdict>>

\* lines 394-403; argparser.error prints the message and exits with 2
MainExpressions ==
    /\ pc = "main"
    /\ ~argv.do_list_genres
    /\ IF _expression_param(argv.bitrate).error \/ _expression_param(argv.listeners).error
       THEN /\ pc' = "exit"
            /\ exit_code' = 2
            /\ stderr' = "invalid expression"
       ELSE /\ pc' = "codec"
            /\ UNCHANGED <<exit_code, stderr,
                   expression, predicate, verdict>>
    /\ UNCHANGED <<pattern, compiled, argv, args, opt_dict, results, known_ids, index,
                   calls, replies, accumulated, returned, stdout,
                   expression, predicate, verdict>>

\* lines 412-416
MainCodec ==
    /\ pc = "codec"
    /\ IF Len(argv.codec) > 0 /\ ~CodecValid(argv.codec)
       THEN /\ pc' = "exit"
            /\ exit_code' = 2
            /\ stderr' = "CODEC must be \"mpeg\", \"aacp\" or none"
       ELSE /\ pc' = "sort"
            /\ UNCHANGED <<exit_code, stderr,
                   expression, predicate, verdict>>
    /\ UNCHANGED <<pattern, compiled, argv, args, opt_dict, results, known_ids, index,
                   calls, replies, accumulated, returned, stdout,
                   expression, predicate, verdict>>

\* line 418
MainSorters ==
    /\ pc = "sort"
    /\ compiled' = _generate_list_sorters(argv.sort_rules)
    /\ IF compiled'.error # NoError
       THEN /\ pc' = "exit"
            /\ exit_code' = 2
            /\ stderr' = compiled'.error
       ELSE /\ pc' = "call"
            /\ UNCHANGED <<exit_code, stderr,
                   expression, predicate, verdict>>
    /\ UNCHANGED <<pattern, argv, args, opt_dict, results, known_ids, index, calls,
                   replies, accumulated, returned, stdout,
                   expression, predicate, verdict>>

\* lines 419-420 and 447-448: the call of search
MainSearch ==
    /\ pc = "call"
    /\ args' = [used |-> TRUE,
                search |-> argv.keywords, station |-> argv.station,
                genre |-> argv.genre, song |-> argv.song,
                bitrate_fn |-> _expression_param(argv.bitrate),
                listeners_fn |-> _expression_param(argv.listeners),
                mime_type |-> MimeType(argv.codec),
                limit |-> argv.limit,
                randomize |-> IF Len(compiled.sorters) > 0 THEN FALSE ELSE argv.random,
                sorters |-> compiled.sorters,
                cell |-> compiled.value]
    /\ pc' = "search"
    /\ UNCHANGED <<pattern, compiled, argv, opt_dict, results, known_ids, index, calls,
                   replies, accumulated, returned, exit_code, stderr, stdout,
                   expression, predicate, verdict>>

\* lines 450-454
MainPrint ==
    /\ pc = "returned"
    /\ argv.used
    /\ stdout' = returned
    /\ IF Len(returned) = 0
       THEN /\ exit_code' = 4
            /\ stderr' = "no station found"
       ELSE /\ exit_code' = 0
            /\ stderr' = stderr
    /\ pc' = "exit"
    /\ UNCHANGED <<pattern, compiled, argv, args, opt_dict, results, known_ids, index,
                   calls, replies, accumulated, returned,
                   expression, predicate, verdict>>

\* lines 455-456
MainNetworkError ==
    /\ pc = "raised"
    /\ argv.used
    /\ exit_code' = 1
    /\ stderr' = "network error"
    /\ pc' = "exit"
    /\ UNCHANGED <<pattern, compiled, argv, args, opt_dict, results, known_ids, index,
                   calls, replies, accumulated, returned, stdout,
                   expression, predicate, verdict>>

\* every combination of the options, on at most one phrase
OptionArgvs ==
    {[used |-> TRUE, do_list_genres |-> g,
      keywords |-> c.search, station |-> c.station, genre |-> c.genre, song |-> c.song,
      bitrate |-> b, listeners |-> l, codec |-> t, sort_rules |-> p,
      limit |-> n, random |-> r] :
        g \in BOOLEAN,
        c \in Criteria(1),
        b \in {<<>>, <<">", "6", "4">>, <<"x", "6">>},
        l \in {<<>>, <<"=">>},
        t \in {<<>>, <<"\"", "m", "p", "e", "g", "\"">>, <<"o", "g", "g">>},
        p \in {<<>>, <<"l">>, <<"n">>, <<"x">>, <<"^", "b", "n", "1">>},
        n \in {0, 1},
        r \in BOOLEAN}

\* every combination of keywords and criteria, the options left at their defaults
KeywordArgvs ==
    {[used |-> TRUE, do_list_genres |-> FALSE,
      keywords |-> c.search, station |-> c.station, genre |-> c.genre, song |-> c.song,
      bitrate |-> <<>>, listeners |-> <<>>, codec |-> <<>>, sort_rules |-> <<>>,
      limit |-> 0, random |-> FALSE] :
        c \in Criteria(MaxKeywords)}

\* the command lines main is run on
Argvs == OptionArgvs \cup KeywordArgvs

InitMain ==
    /\ pc = "main"
    /\ pattern = NoPattern
    /\ compiled = NoCompiled
    /\ argv \in Argvs
    /\ args = NoArgs
    /\ opt_dict = <<>>
    /\ results = <<>>
    /\ known_ids = <<>>
    /\ index = 0
    /\ calls = <<>>
    /\ replies = <<>>
    /\ accumulated = <<>>
    /\ returned = <<>>
    /\ exit_code = -1
    /\ stderr = ""
    /\ stdout = <<>>
    /\ expression = NoExpression
    /\ predicate = NoPredicate
    /\ verdict = NoVerdict

NextMain ==
    \/ MainListGenres \/ MainExpressions \/ MainCodec \/ MainSorters \/ MainSearch
    \/ SearchBegin \/ QueryTop500 \/ QueryKeyword \/ QueryFails
    \/ Filter \/ Shuffle \/ SortListeners \/ ApplySorter \/ Return
    \/ MainPrint \/ MainNetworkError

SpecMain == InitMain /\ [][NextMain]_vars

\* the sort pattern or a bitrate/listener expression of the command line is malformed
Malformed ==
    \/ _expression_param(argv.bitrate).error
    \/ _expression_param(argv.listeners).error
    \/ _generate_list_sorters(argv.sort_rules).error # NoError

ArgumentErrors ==
    {"invalid expression", "invalid sorter", "missing number for sorter n",
     "CODEC must be \"mpeg\", \"aacp\" or none"}

----------------------------------------------------------------------------
(* Provider failure *)

\* a station query was issued and got no answer
QueryFailed == Len(calls) > Len(replies)

\* C11: once a station query has failed no further query is issued, search
\* returns nothing, and main prints no stations: the run ends on the network
\* error, whatever the earlier queries had gathered.
C11_FailureAbortsSearch ==
    (argv.used /\ ~argv.do_list_genres /\ QueryFailed) =>
        /\ Len(calls) = Len(replies) + 1
        /\ pc \in {"raised", "exit"}
        /\ returned = <<>>
        /\ stdout = <<>>
        /\ pc = "exit" => exit_code = 1 /\ stderr = "network error"

C11_Witness ==
    /\ pc = "exit"
    /\ exit_code = 1
    /\ args.used
    /\ Len(keywords) = 2
    /\ Len(calls) = 2
    /\ Len(replies) = 1
    /\ Len(results) > 0
    /\ stdout = <<>>

----------------------------------------------------------------------------
(* The grammar of sorter patterns, read off the pattern text *)

\* the digit at position i continues the number of an 'n'
ContinuesNumber(pat, i) ==
    /\ pat[i] \in Digits
    /\ \E p \in 1..(i - 1) :
           /\ pat[p] = "n"
           /\ \A j \in (p + 1)..i : pat[j] \in Digits

InvalidAt(pat, i) ==
    /\ pat[i] \notin {"^", "b", "l", "r", "n"}
    /\ ~ContinuesNumber(pat, i)

MissingNumberAt(pat, i) ==
    /\ pat[i] = "n"
    /\ (i = Len(pat) \/ pat[i + 1] \notin Digits)

Offences(pat) == {i \in 1..Len(pat) : InvalidAt(pat, i) \/ MissingNumberAt(pat, i)}

FirstOffence(pat) == CHOOSE i \in Offences(pat) : \A j \in Offences(pat) : i <= j

\* step i and its description are the ones the i-th letter of pat asks for
\* (the direction of a field sort is left open here)
StepFitsLetter(pat, i) ==
    LET letter == pat[LetterPos(pat, i)]
        m == compiled.sorters[i]
        text == compiled.sorters_description[i]
    IN  CASE letter = "b" -> /\ m.kind = "sort" /\ m.field = "br"
                             /\ text \in {"bitrate asc", "bitrate desc"}
          [] letter = "l" -> /\ m.kind = "sort" /\ m.field = "lc"
                             /\ text \in {"listeners asc", "listeners desc"}
          [] letter = "r" -> /\ m.kind = "random"
                             /\ text = "random order"
          [] letter = "n" -> /\ m.kind = "truncate"
                             /\ text = "top " \o ToString(WrittenNumber(pat, i))

\* C12: a pattern fails exactly when it leaves the grammar, on the first offence
\* met from the left: a character that is no '^', 'b', 'l', 'r', 'n' nor a digit
\* continuing an 'n' number gives the invalid-sorter error naming it, an 'n'
\* without a digit behind it the missing-number error, and no sorter is
\* returned; every other pattern compiles to one step and one description per
\* b/l/r/n letter, in pattern order.
C12_FailsExactlyOutsideGrammar ==
    pc # "gls_call" =>
        IF Offences(PatternText) = {}
        THEN /\ pc = "gls_done"
             /\ compiled.error = NoError
             /\ Len(compiled.sorters) =
                    Cardinality({q \in 1..Len(PatternText) : PatternText[q] \in StepLetters})
             /\ Len(compiled.sorters_description) = Len(compiled.sorters)
             /\ \A i \in 1..Len(compiled.sorters) : StepFitsLetter(PatternText, i)
        ELSE /\ pc \in {"gls_error", "exit"}
             /\ index = 1
             /\ IF MissingNumberAt(PatternText, FirstOffence(PatternText))
                THEN compiled.error = "missing number for sorter n"
                ELSE /\ compiled.error = "invalid sorter"
                     /\ compiled.char = PatternText[FirstOffence(PatternText)]
             /\ pc = "exit" => exit_code = 2 /\ stderr = compiled.error

C12_Witness ==
    /\ pc = "exit"
    /\ PatternText = <<"n", "1", "l", "2">>
    /\ compiled.error = "invalid sorter"
    /\ compiled.char = "2"

----------------------------------------------------------------------------
(* A direct call of _expression_param, and a call of the predicate it     *)
(* returns, as in test_expression_param_*                                  *)

ExpressionChars == {"=", ">", "<", "0", "1", "2", "x", "\n"}

ExpressionTexts == SeqsUpTo(ExpressionChars, MaxExprLen)

\* the values the predicate is asked about
XValues == { <<"0">>, <<"1">>, <<"2">>, <<"0", "1">>, <<"1", "0">>, <<"1", "2">>, <<"2", "1">> }

InitExpression ==
    /\ pc = "ep_call"
    /\ pattern = NoPattern
    /\ compiled = NoCompiled
    /\ argv = NoArgv
    /\ args = NoArgs
    /\ opt_dict = <<>>
    /\ results = <<>>
    /\ known_ids = <<>>
    /\ index = 0
    /\ calls = <<>>
    /\ replies = <<>>
    /\ accumulated = <<>>
    /\ returned = <<>>
    /\ exit_code = -1
    /\ stderr = ""
    /\ stdout = <<>>
    /\ expression \in {NoExpression} \cup {[given |-> TRUE, text |-> t] : t \in ExpressionTexts}
    /\ predicate = NoPredicate
    /\ verdict = NoVerdict

\* lines 213-224; a value of None is as good as ''
ExpressionParam ==
    /\ pc = "ep_call"
    /\ predicate' = IF expression.given THEN _expression_param(expression.text)
                                        ELSE _expression_param(<<>>)
    /\ pc' = IF predicate'.error THEN "ep_error" ELSE "ep_done"
    /\ UNCHANGED <<pattern, compiled, argv, args, opt_dict, results, known_ids, index,
                   calls, replies, accumulated, returned, exit_code, stderr, stdout,
                   expression, verdict>>

\* line 217: argparser.error prints the message and exits with 2
ExpressionParamExit ==
    /\ pc = "ep_error"
    /\ pc' = "exit"
    /\ exit_code' = 2
    /\ stderr' = "invalid expression"
    /\ UNCHANGED <<pattern, compiled, argv, args, opt_dict, results, known_ids, index,
                   calls, replies, accumulated, returned, stdout,
                   expression, predicate, verdict>>

\* the returned lambda called on a value
CallPredicate ==
    /\ pc = "ep_done"
    /\ \E x \in XValues :
           verdict' = [called |-> TRUE, x |-> x, accepted |-> CallExpression(predicate, x)]
    /\ pc' = "ep_called"
    /\ UNCHANGED <<pattern, compiled, argv, args, opt_dict, results, known_ids, index,
                   calls, replies, accumulated, returned, exit_code, stderr, stdout,
                   expression, predicate>>

NextExpression == ExpressionParam \/ ExpressionParamExit \/ CallPredicate

SpecExpression == InitExpression /\ [][NextExpression]_vars

\* the number a text of digits writes
RECURSIVE NumberOf(_)
NumberOf(digits) ==
    IF Len(digits) = 0 THEN 0
    ELSE DigitValue(Head(digits)) * 10 ^ (Len(digits) - 1) + NumberOf(Tail(digits))

Comparisons == {"=", ">", "<"}

\* the digits of an expression text, behind its comparison sign if it has one
NumberPart(text) ==
    IF Len(text) > 0 /\ text[1] \in Comparisons THEN Tail(text) ELSE text

\* text is an optional '=', '>' or '<' followed by one or more digits
WellFormed(text) ==
    /\ Len(NumberPart(text)) >= 1
    /\ \A i \in 1..Len(NumberPart(text)) : NumberPart(text)[i] \in Digits

\* what a well-formed text says about the value x
Accepts(text, x) ==
    IF text[1] = ">" THEN x > NumberOf(NumberPart(text))
    ELSE IF text[1] = "<" THEN x < NumberOf(NumberPart(text))
    ELSE x = NumberOf(NumberPart(text))

\* C13: '>N' accepts x iff x > N, '<N' iff x < N, '=N' and 'N' iff x = N, an
\* empty or missing text accepts every x, and every text that is not an optional
\* '=', '>' or '<' followed by one or more digits is rejected with the
\* invalid-expression error and yields no predicate.
C13_ExpressionPredicate ==
    pc # "ep_call" =>
        IF ~expression.given \/ expression.text = <<>>
        THEN /\ pc \in {"ep_done", "ep_called"}
             /\ pc = "ep_called" => verdict.accepted
        ELSE IF WellFormed(expression.text)
        THEN /\ pc \in {"ep_done", "ep_called"}
             /\ pc = "ep_called" =>
                    (verdict.accepted <=> Accepts(expression.text, NumberOf(verdict.x)))
        ELSE /\ pc \in {"ep_error", "exit"}
             /\ pc = "exit" => exit_code = 2 /\ stderr = "invalid expression"

----------------------------------------------------------------------------
(* The limit option and the pattern 'ln<N>' *)

\* lines 171-172 for sorters that do not shuffle: the loop run to its end
RECURSIVE RunSorters(_, _, _)
RunSorters(sorters, cell, list) ==
    IF Len(sorters) = 0 THEN list
    ELSE RunSorters(Tail(sorters), cell,
                    CHOOSE out \in CallSorter(Head(sorters), list, cell) : TRUE)

\* lines 147-177 on the accumulated records, randomize being False
SearchTail(limit, sorters, cell) ==
    Limited(RunSorters(sorters, cell, SortByListeners(Filtered(accumulated))), limit)

\* what search returns with limit n and no sort rules
ViaLimit(n) == SearchTail(n, <<>>, 0)

\* what search returns with limit 0 and the sorters compiled from 'ln<n>'
ViaPattern(n) ==
    SearchTail(0, _generate_list_sorters(LimitPattern(n)).sorters,
                  _generate_list_sorters(LimitPattern(n)).value)

\* C14: for every accumulated list, all criteria and every N > 0, search with
\* limit N and no sort rules returns what search with limit 0 and the sorters
\* of 'ln<N>' returns (randomize being False on both sides).
C14_LimitIsPatternLN ==
    \A n \in 1..MaxLimit :
        /\ (args.used /\ pc \in {"filter", "order", "sorters", "returned"}) =>
               ViaLimit(n) = ViaPattern(n)
        /\ (pc = "returned" /\ ~args.randomize) =>
               /\ (args.limit = n /\ args.sorters = <<>>) => returned = ViaPattern(n)
               /\ (/\ args.limit = 0
                   /\ args.sorters = _generate_list_sorters(LimitPattern(n)).sorters
                   /\ args.cell = n) => returned = ViaLimit(n)

C14_Witness ==
    /\ pc = "returned"
    /\ ~args.randomize
    /\ args.limit = 0
    /\ args.sorters = _generate_list_sorters(LimitPattern(2)).sorters
    /\ args.cell = 2
    /\ accumulated = <<st3, st4, st2>>
    /\ returned = <<st3, st4>>

----------------------------------------------------------------------------
(* Records are only selected and reordered *)

\* how often record r occurs in list
Count(list, r) == Cardinality({i \in 1..Len(list) : list[i] = r})

\* every record of list occurs in source, whole, at least as often
DrawnFrom(list, source) == \A r \in Elements(list) : Count(list, r) <= Count(source, r)

IsPermutation(list, source) ==
    /\ Len(list) = Len(source)
    /\ \A r \in Elements(list) \cup Elements(source) : Count(list, r) = Count(source, r)

IsPrefix(list, source) ==
    /\ Len(list) <= Len(source)
    /\ list = SubSeq(source, 1, Len(list))

\* from the filter on, and in what search returns, every record is one of the
\* accumulated records, no more often than there
OnlyAccumulatedRecords ==
    /\ pc \in {"order", "sorters", "returned"} => DrawnFrom(results, accumulated)
    /\ pc = "returned" => DrawnFrom(returned, accumulated)

\* a b, l or r step permutes the list it is given, an n step cuts it to a prefix
SorterStepKeepsRecords ==
    (pc = "sorters" /\ index <= Len(args.sorters)) =>
        IF args.sorters[index].kind = "truncate"
        THEN IsPrefix(results', results)
        ELSE IsPermutation(results', results)

\* C15: every record search returns is one of the accumulated records with all
\* its fields, no more often than it was accumulated; every b, l or r step
\* returns a permutation of its input and every n step a prefix of it.
C15_RecordsOnlySelectedAndReordered ==
    []OnlyAccumulatedRecords /\ [][SorterStepKeepsRecords]_vars

C15_Witness ==
    /\ pc = "returned"
    /\ args.sorters = _generate_list_sorters(<<"l", "n", "2", "r">>).sorters
    /\ accumulated = <<st3, st4, st2>>
    /\ returned = <<st4, st3>>

====
